---- MODULE Spec2Model ----
(***************************************************************************)
(* Model of clean_png_metadata.py: the PNG chunk reader, filter and writer *)
(* and the batch loop of main() that drives them over a list of files.     *)
(*                                                                         *)
(* Bytes are the integers 0..255 and a file is a sequence of bytes.  A     *)
(* Python int holding an unsigned 32-bit value is the pair <<hi, lo>> of   *)
(* its 16-bit halves.  A Python str is the sequence of its code points.    *)
(***************************************************************************)
EXTENDS Integers, Sequences, FiniteSets, TLC

\* ----------------------------------------------------------------------
\* Bounds of the model
\* ----------------------------------------------------------------------
MaxChunks == 2
MaxData == 1
NumFiles == 2

Min(a, b) == IF a < b THEN a ELSE b

\* ----------------------------------------------------------------------
\* binascii.crc32: CRC-32, reflected polynomial 0xEDB88320, table driven.
\* The register is kept as four bytes, most significant first.
\* ----------------------------------------------------------------------
RECURSIVE BitXor(_, _, _)
BitXor(a, b, n) ==
    IF n = 0 THEN 0
    ELSE ((a + b) % 2) + 2 * BitXor(a \div 2, b \div 2, n - 1)

XorTable == [a \in 0..255 |-> [b \in 0..255 |-> BitXor(a, b, 8)]]

Xor8(a, b) == XorTable[a][b]

Xor32(p, q) == <<Xor8(p[1], q[1]), Xor8(p[2], q[2]), Xor8(p[3], q[3]), Xor8(p[4], q[4])>>

CRC_POLY == <<237, 184, 131, 32>>

Shr1(c) ==
    <<c[1] \div 2,
      (c[1] % 2) * 128 + c[2] \div 2,
      (c[2] % 2) * 128 + c[3] \div 2,
      (c[3] % 2) * 128 + c[4] \div 2>>

RECURSIVE CrcRound(_, _)
CrcRound(c, k) ==
    IF k = 0 THEN c
    ELSE CrcRound(IF c[4] % 2 = 1 THEN Xor32(CRC_POLY, Shr1(c)) ELSE Shr1(c), k - 1)

CrcTable == [n \in 0..255 |-> CrcRound(<<0, 0, 0, n>>, 8)]

CrcUpdate(c, b) ==
    LET t == CrcTable[Xor8(c[4], b)]
    IN  <<t[1], Xor8(t[2], c[1]), Xor8(t[3], c[2]), Xor8(t[4], c[3])>>

RECURSIVE CrcFold(_, _, _)
CrcFold(c, bytes, i) ==
    IF i > Len(bytes) THEN c ELSE CrcFold(CrcUpdate(c, bytes[i]), bytes, i + 1)

crc32(bytes) ==
    LET c == Xor32(CrcFold(<<255, 255, 255, 255>>, bytes, 1), <<255, 255, 255, 255>>)
    IN  <<c[1] * 256 + c[2], c[3] * 256 + c[4]>>

\* ----------------------------------------------------------------------
\* int.from_bytes(b, "big"), int.to_bytes(4, "big"), bytes.decode, str.encode
\* ----------------------------------------------------------------------
from_bytes(b) == <<b[1] * 256 + b[2], b[3] * 256 + b[4]>>

to_bytes(n) == <<n[1] \div 256, n[1] % 256, n[2] \div 256, n[2] % 256>>

REPLACEMENT_CHAR == 65533

decode_ascii(b) == [i \in 1..Len(b) |-> IF b[i] < 128 THEN b[i] ELSE REPLACEMENT_CHAR]

can_encode_ascii(s) == \A i \in 1..Len(s) : s[i] < 128

encode_ascii(s) == [i \in 1..Len(s) |-> s[i]]

\* ----------------------------------------------------------------------
\* PNG utilities
\* ----------------------------------------------------------------------
PNG_SIGNATURE == <<137, 80, 78, 71, 13, 10, 26, 10>>

PNGChunk(length, type, data, crc) ==
    [length |-> length, type |-> type, data |-> data, crc |-> crc]

compute_crc(type_bytes, data) == crc32(type_bytes \o data)

\* f.read(n) at offset pos (0-based): at most n bytes, fewer at end of file.
f_read(bytes, pos, n) == SubSeq(bytes, pos + 1, Min(pos + n, Len(bytes)))

\* f.read(length) for a 32-bit length; every file of the model is shorter
\* than 65536 bytes, so a length with a non-zero high half reads to the end.
f_read_len(bytes, pos, length) ==
    IF length[1] > 0 THEN SubSeq(bytes, pos + 1, Len(bytes))
    ELSE f_read(bytes, pos, length[2])

\* len(data) != length
len_differs(data, length) == ~(length[1] = 0 /\ length[2] = Len(data))

NoStr == <<>>
NoInt == <<-1, -1>>

\* The ValueError raised by the reader, by the content of its message.
ReadError(what, field, chunk_type, expected, got, path) ==
    [exc |-> "ValueError", what |-> what, field |-> field, chunk_type |-> chunk_type,
     expected |-> expected, got |-> got, path |-> path]

NoError ==
    [exc |-> "none", what |-> "none", field |-> "none", chunk_type |-> NoStr,
     expected |-> NoInt, got |-> NoInt, path |-> <<"none", 0>>]

\* Variant of crc_mismatch: only the low 16 bits are compared.
crc_mismatch_low_half(crc, expected_crc) == crc[2] # expected_crc[2]

crc_mismatch(crc, expected_crc) == crc # expected_crc

\* Variant of read_one_chunk: a partly read length field is taken for the
\* end of the file, and the data error does not name the chunk.
read_one_chunk_lenient(bytes, pos, path) ==
    LET len_bytes == f_read(bytes, pos, 4)
        length == from_bytes(len_bytes)
        type_bytes == f_read(bytes, pos + 4, 4)
        chunk_type == decode_ascii(type_bytes)
        data == f_read_len(bytes, pos + 8, length)
        crc_bytes == f_read(bytes, pos + 8 + Len(data), 4)
        crc == from_bytes(crc_bytes)
        expected_crc == compute_crc(type_bytes, data)
    IN  IF Len(len_bytes) # 4 THEN
            [step |-> "break", err |-> NoError]
        ELSE IF Len(type_bytes) # 4 THEN
            [step |-> "raise", err |-> ReadError("eof", "type", NoStr, NoInt, NoInt, path)]
        ELSE IF len_differs(data, length) THEN
            [step |-> "raise", err |-> ReadError("eof", "data", NoStr, NoInt, NoInt, path)]
        ELSE IF Len(crc_bytes) # 4 THEN
            [step |-> "raise", err |-> ReadError("eof", "CRC", chunk_type, NoInt, NoInt, path)]
        ELSE IF crc_mismatch(crc, expected_crc) THEN
            [step |-> "raise", err |-> ReadError("crc", "none", chunk_type, expected_crc, crc, path)]
        ELSE
            [step |-> "append", err |-> NoError,
             chunk |-> PNGChunk(length, chunk_type, data, crc),
             pos |-> pos + 12 + Len(data)]

\* One pass of the body of the while loop of read_png_chunks, at offset pos.
read_one_chunk(bytes, pos, path) ==
    LET len_bytes == f_read(bytes, pos, 4)
        length == from_bytes(len_bytes)
        type_bytes == f_read(bytes, pos + 4, 4)
        chunk_type == decode_ascii(type_bytes)
        data == f_read_len(bytes, pos + 8, length)
        crc_bytes == f_read(bytes, pos + 8 + Len(data), 4)
        crc == from_bytes(crc_bytes)
        expected_crc == compute_crc(type_bytes, data)
    IN  IF len_bytes = <<>> THEN
            [step |-> "break", err |-> NoError]
        ELSE IF Len(len_bytes) # 4 THEN
            [step |-> "raise", err |-> ReadError("eof", "length", NoStr, NoInt, NoInt, path)]
        ELSE IF Len(type_bytes) # 4 THEN
            [step |-> "raise", err |-> ReadError("eof", "type", NoStr, NoInt, NoInt, path)]
        ELSE IF len_differs(data, length) THEN
            [step |-> "raise", err |-> ReadError("eof", "data", chunk_type, NoInt, NoInt, path)]
        ELSE IF Len(crc_bytes) # 4 THEN
            [step |-> "raise", err |-> ReadError("eof", "CRC", chunk_type, NoInt, NoInt, path)]
        ELSE IF crc_mismatch(crc, expected_crc) THEN
            [step |-> "raise", err |-> ReadError("crc", "none", chunk_type, expected_crc, crc, path)]
        ELSE
            [step |-> "append", err |-> NoError,
             chunk |-> PNGChunk(length, chunk_type, data, crc),
             pos |-> pos + 12 + Len(data)]

RECURSIVE read_loop(_, _, _, _)
read_loop(bytes, pos, chunks, path) ==
    LET r == read_one_chunk(bytes, pos, path)
    IN  IF r.step = "break" THEN [ok |-> TRUE, chunks |-> chunks, err |-> NoError]
        ELSE IF r.step = "raise" THEN [ok |-> FALSE, chunks |-> <<>>, err |-> r.err]
        ELSE read_loop(bytes, r.pos, Append(chunks, r.chunk), path)

read_png_chunks(bytes, path) ==
    LET sig == f_read(bytes, 0, 8)
    IN  IF sig # PNG_SIGNATURE THEN
            [ok |-> FALSE, chunks |-> <<>>,
             err |-> ReadError("signature", "none", NoStr, NoInt, NoInt, path)]
        ELSE read_loop(bytes, 8, <<>>, path)

\* The bytes the writer passes to f.write for one chunk, when its type encodes.
chunk_bytes(ch) ==
    to_bytes(ch.length) \o encode_ascii(ch.type) \o ch.data \o to_bytes(ch.crc)

\* write_png_chunks.  io.open_ok: dest_path.open("wb") succeeds; io.fail_at:
\* the OS fails the write of chunk number fail_at (0: of the signature; a
\* number above len(chunks): never).  On an exception the with block closes
\* the file, which keeps what was written before.
RECURSIVE write_loop(_, _, _, _)
write_loop(chunks, i, f, io) ==
    IF i > Len(chunks) THEN
        [ok |-> TRUE, opened |-> TRUE, content |-> f, exc |-> "none"]
    ELSE IF io.fail_at = i THEN
        [ok |-> FALSE, opened |-> TRUE, content |-> f, exc |-> "OSError"]
    ELSE IF ~can_encode_ascii(chunks[i].type) THEN
        [ok |-> FALSE, opened |-> TRUE, content |-> f \o to_bytes(chunks[i].length),
         exc |-> "UnicodeEncodeError"]
    ELSE write_loop(chunks, i + 1, f \o chunk_bytes(chunks[i]), io)

write_png_chunks(chunks, io) ==
    IF ~io.open_ok THEN
        [ok |-> FALSE, opened |-> FALSE, content |-> <<>>, exc |-> "OSError"]
    ELSE IF io.fail_at = 0 THEN
        [ok |-> FALSE, opened |-> TRUE, content |-> <<>>, exc |-> "OSError"]
    ELSE write_loop(chunks, 1, PNG_SIGNATURE, io)

IoOk == [open_ok |-> TRUE, fail_at |-> -1]

\* ----------------------------------------------------------------------
\* Core processing
\* ----------------------------------------------------------------------
IHDR == <<73, 72, 68, 82>>
PLTE == <<80, 76, 84, 69>>
IDAT == <<73, 68, 65, 84>>
IEND == <<73, 69, 78, 68>>
tEXt == <<116, 69, 88, 116>>
zTXt == <<122, 84, 88, 116>>
iTXt == <<105, 84, 88, 116>>
tIME == <<116, 73, 77, 69>>
pHYs == <<112, 72, 89, 115>>
gAMA == <<103, 65, 77, 65>>

\* Variant of DROP_CHUNKS: gAMA is forgotten.
DROP_CHUNKS_without_gAMA == {tEXt, zTXt, iTXt, tIME, pHYs}

CORE_CHUNKS == {IHDR, PLTE, IDAT, IEND}

DROP_CHUNKS == {tEXt, zTXt, iTXt, tIME, pHYs, gAMA}

\* Variant of filter_loop: the loop ends at the first IEND chunk.
RECURSIVE filter_loop_to_IEND(_, _, _, _)
filter_loop_to_IEND(chunks, i, kept, removed) ==
    IF i > Len(chunks) THEN [kept |-> kept, removed |-> removed]
    ELSE IF chunks[i].type = IEND THEN
        [kept |-> Append(kept, chunks[i]), removed |-> removed]
    ELSE IF chunks[i].type \in CORE_CHUNKS THEN
        filter_loop_to_IEND(chunks, i + 1, Append(kept, chunks[i]), removed)
    ELSE IF chunks[i].type \in DROP_CHUNKS THEN
        filter_loop_to_IEND(chunks, i + 1, kept, removed + 1)
    ELSE
        filter_loop_to_IEND(chunks, i + 1, Append(kept, chunks[i]), removed)

RECURSIVE filter_loop(_, _, _, _)
filter_loop(chunks, i, kept, removed) ==
    IF i > Len(chunks) THEN [kept |-> kept, removed |-> removed]
    ELSE IF chunks[i].type \in CORE_CHUNKS THEN
        filter_loop(chunks, i + 1, Append(kept, chunks[i]), removed)
    ELSE IF chunks[i].type \in DROP_CHUNKS THEN
        filter_loop(chunks, i + 1, kept, removed + 1)
    ELSE
        filter_loop(chunks, i + 1, Append(kept, chunks[i]), removed)

filter_chunks(chunks) == filter_loop(chunks, 1, <<>>, 0)

\* ----------------------------------------------------------------------
\* Input files.  A file is described by the chunks it was made of and by
\* what was done to it afterwards: nothing, a cut after `at` bytes, or one
\* byte (number `at`, from 1) with its lowest bit flipped.
\* ----------------------------------------------------------------------
sRGB == <<115, 82, 71, 66>>
NonAsciiType == <<200, 82, 71, 66>>

AllTypes ==
    {IHDR, PLTE, IDAT, IEND, tEXt, zTXt, iTXt, tIME, pHYs, gAMA, sRGB, NonAsciiType}

DataOfLen(n) == [i \in 1..n |-> 199 + i]

RawChunk(type, data) == [type |-> type, data |-> data]

valid_chunk_bytes(rc) ==
    to_bytes(<<0, Len(rc.data)>>) \o rc.type \o rc.data \o to_bytes(compute_crc(rc.type, rc.data))

RECURSIVE valid_png_bytes(_, _)
valid_png_bytes(base, i) ==
    IF i > Len(base) THEN <<>>
    ELSE valid_chunk_bytes(base[i]) \o valid_png_bytes(base, i + 1)

RECURSIVE FullLen(_, _)
FullLen(base, i) ==
    IF i > Len(base) THEN 8 ELSE 12 + Len(base[i].data) + FullLen(base, i + 1)

FlipBit(b) == IF b % 2 = 0 THEN b + 1 ELSE b - 1

Render(g) ==
    LET full == PNG_SIGNATURE \o valid_png_bytes(g.base, 1)
    IN  IF g.mut = "trunc" THEN SubSeq(full, 1, g.at)
        ELSE IF g.mut = "flip" THEN [full EXCEPT ![g.at] = FlipBit(full[g.at])]
        ELSE full

Gen(base, mut, at) == [base |-> base, mut |-> mut, at |-> at]

ListsOver(pool, n) == UNION {[1..k -> pool] : k \in 0..n}

\* Well-formed files over every chunk type, with empty chunk data.
TypeGens == {Gen(b, "none", 0) : b \in ListsOver({RawChunk(t, <<>>) : t \in AllTypes}, MaxChunks)}

\* Files over two chunk types with data of every length up to MaxData:
\* well formed, cut at every length, and with every single byte damaged.
DataPool == {RawChunk(t, DataOfLen(n)) : t \in {IHDR, tEXt}, n \in 0..MaxData}

DamagedGens ==
    UNION {{Gen(b, "none", 0)}
           \cup {Gen(b, "trunc", p) : p \in 0..(FullLen(b, 1) - 1)}
           \cup {Gen(b, "flip", p) : p \in 1..FullLen(b, 1)}
           : b \in ListsOver(DataPool, MaxChunks)}

CodecGens == TypeGens \cup DamagedGens

\* The files of a batch run.
SampleGens ==
    {Gen(<<RawChunk(IHDR, DataOfLen(1)), RawChunk(tEXt, DataOfLen(2)), RawChunk(IDAT, DataOfLen(1)),
           RawChunk(tIME, DataOfLen(1)), RawChunk(IEND, <<>>)>>, "none", 0),
     Gen(<<RawChunk(IHDR, DataOfLen(1)), RawChunk(sRGB, DataOfLen(1)), RawChunk(IEND, <<>>)>>, "none", 0),
     Gen(<<RawChunk(IHDR, DataOfLen(1)), RawChunk(NonAsciiType, <<>>), RawChunk(IEND, <<>>)>>, "none", 0),
     Gen(<<RawChunk(IHDR, DataOfLen(1)), RawChunk(IDAT, DataOfLen(2))>>, "flip", 30),
     Gen(<<RawChunk(IHDR, DataOfLen(1)), RawChunk(tEXt, DataOfLen(2))>>, "trunc", 30),
     Gen(<<>>, "none", 0),
     Gen(<<RawChunk(IEND, <<>>)>>, "flip", 2)}

\* ----------------------------------------------------------------------
\* State of a run of main()
\* ----------------------------------------------------------------------
VARIABLES
    fs,              \* the files: path -> bytes, or Absent
    out_dir_exists,  \* whether the parent directory of the mirrored outputs exists
    notepad,         \* NOTEPAD_BASE and learnings.md
    files,           \* the list collect_png_files returned
    backup, dry_run, output,    \* the parsed arguments
    pc,              \* position in main()
    idx,             \* loop index (from 1)
    chunks, kept, removed, dest,
    processed, total_removed, total_before, total_after,
    per_file_logs,
    gen,             \* how each input file was made (not program state)
    before,          \* the file system before the run (not program state)
    opened           \* the paths write_png_chunks opened for writing (not program state)

vars ==
    <<fs, out_dir_exists, notepad, files, backup, dry_run, output, pc, idx, chunks, kept,
      removed, dest, processed, total_removed, total_before, total_after, per_file_logs,
      gen, before, opened>>

Absent == <<-1>>

SrcPath(i) == <<"src", i>>
BakPath(i) == <<"bak", i>>
OutPath(i) == <<"out", i>>
OutFile == <<"outfile", 0>>
NoPath == <<"none", 0>>

AllPaths ==
    {SrcPath(i) : i \in 1..NumFiles} \cup {BakPath(i) : i \in 1..NumFiles}
    \cup {OutPath(i) : i \in 1..NumFiles} \cup {OutFile}

total == Len(files)

NoOutput == [given |-> FALSE, png |-> FALSE, is_file |-> FALSE]

Outputs == {NoOutput} \cup {[given |-> TRUE, png |-> p, is_file |-> f] : p \in BOOLEAN, f \in BOOLEAN}

InitFs(g, o) ==
    [p \in AllPaths |->
        IF p[1] = "src" /\ p[2] \in DOMAIN g THEN Render(g[p[2]])
        ELSE IF p = OutFile /\ o.is_file THEN PNG_SIGNATURE
        ELSE Absent]

InitRun(g, n, outputs, dirs, flags) ==
    /\ gen = g
    /\ files = [i \in 1..n |-> SrcPath(i)]
    /\ output \in outputs
    /\ out_dir_exists \in (IF output.given /\ ~output.is_file THEN dirs ELSE {FALSE})
    /\ fs = InitFs(g, output)
    /\ notepad = [dir_exists |-> FALSE, file_exists |-> FALSE, runs |-> <<>>]
    /\ before = [fs |-> fs, out_dir_exists |-> out_dir_exists, notepad |-> notepad]
    /\ backup \in flags
    /\ dry_run \in flags
    /\ pc = "read"
    /\ idx = 1
    /\ chunks = <<>>
    /\ kept = <<>>
    /\ removed = 0
    /\ dest = NoPath
    /\ processed = 0
    /\ total_removed = 0
    /\ total_before = 0
    /\ total_after = 0
    /\ per_file_logs = <<>>
    /\ opened = {}

\* A batch run: NumFiles files, any arguments.
Init == \E g \in [1..NumFiles -> SampleGens] : InitRun(g, NumFiles, Outputs, BOOLEAN, BOOLEAN)

\* A run on one file, of any content within the bounds, in place or into an
\* existing output directory, without --backup and without --dry-run.
CodecOutputs == {NoOutput, [given |-> TRUE, png |-> FALSE, is_file |-> FALSE]}

InitCodec == \E g \in [1..1 -> CodecGens] : InitRun(g, 1, CodecOutputs, {TRUE}, {FALSE})

\* ----------------------------------------------------------------------
\* main(): the loop over the files, one action per step of its body
\* ----------------------------------------------------------------------
src == files[idx]

LogEntry(path, kind, err, exc, n) ==
    [src |-> path, kind |-> kind, err |-> err, exc |-> exc, removed |-> n]

\* `continue`, or the end of the loop body: the next file, or the summary.
NextFile ==
    /\ idx' = idx + 1
    /\ pc' = IF idx + 1 > total THEN "summary" ELSE "read"

RECURSIVE SumLength(_, _)
SumLength(chs, i) ==
    IF i > Len(chs) THEN 0 ELSE chs[i].length[2] + SumLength(chs, i + 1)

\* chunks = read_png_chunks(src), and the handler of its exception.
ReadFile ==
    /\ pc = "read"
    /\ LET r == read_png_chunks(fs[src], src)
       IN  IF r.ok THEN
               /\ chunks' = r.chunks
               /\ pc' = "backup"
               /\ UNCHANGED <<idx, per_file_logs>>
           ELSE
               /\ per_file_logs' = Append(per_file_logs, LogEntry(src, "READ ERROR", r.err, r.err.exc, 0))
               /\ NextFile
               /\ UNCHANGED chunks
    /\ UNCHANGED <<fs, out_dir_exists, notepad, files, backup, dry_run, output, kept, removed,
                   dest, processed, total_removed, total_before, total_after, gen, before, opened>>

\* shutil.copy2(src, backup_path) when asked for; copy_ok is whether the
\* copy succeeds.  A failed copy is reported and the body goes on.
BackupFile ==
    /\ pc = "backup"
    /\ \E copy_ok \in (IF backup /\ ~dry_run THEN BOOLEAN ELSE {TRUE}) :
          fs' = IF backup /\ ~dry_run /\ copy_ok
                THEN [fs EXCEPT ![BakPath(src[2])] = fs[src]]
                ELSE fs
    /\ pc' = "filter"
    /\ UNCHANGED <<out_dir_exists, notepad, files, backup, dry_run, output, idx, chunks, kept,
                   removed, dest, processed, total_removed, total_before, total_after,
                   per_file_logs, gen, before, opened>>

FilterFile ==
    /\ pc = "filter"
    /\ LET r == filter_chunks(chunks)
       IN  /\ kept' = r.kept
           /\ removed' = r.removed
           /\ total_before' = total_before + SumLength(chunks, 1) + 12 * Len(chunks)
           /\ total_after' = total_after + SumLength(r.kept, 1) + 12 * Len(r.kept)
           /\ total_removed' = total_removed + r.removed
    /\ pc' = "prepare"
    /\ UNCHANGED <<fs, out_dir_exists, notepad, files, backup, dry_run, output, idx, chunks,
                   dest, processed, per_file_logs, gen, before, opened>>

\* The destination of the current file; sys.exit(2) for several inputs and
\* an output path that looks like a single file.
PrepareDest ==
    /\ pc = "prepare"
    /\ IF output.given /\ output.png /\ total > 1 THEN
           /\ pc' = "exit2"
           /\ UNCHANGED dest
       ELSE
           /\ dest' = IF ~output.given THEN src
                      ELSE IF output.is_file THEN OutFile
                      ELSE OutPath(src[2])
           /\ pc' = "mkdirs"
    /\ UNCHANGED <<fs, out_dir_exists, notepad, files, backup, dry_run, output, idx, chunks,
                   kept, removed, processed, total_removed, total_before, total_after,
                   per_file_logs, gen, before, opened>>

parent_exists(path) == path[1] # "out" \/ out_dir_exists

\* ensure_parent_dirs(dest), called outside any try: an exception of mkdir
\* leaves main().
EnsureParentDirs ==
    /\ pc = "mkdirs"
    /\ IF dry_run \/ parent_exists(dest) THEN
           /\ pc' = "write"
           /\ UNCHANGED out_dir_exists
       ELSE
           \E mkdir_ok \in BOOLEAN :
               /\ out_dir_exists' = mkdir_ok
               /\ pc' = IF mkdir_ok THEN "write" ELSE "crashed"
    /\ UNCHANGED <<fs, notepad, files, backup, dry_run, output, idx, chunks, kept, removed,
                   dest, processed, total_removed, total_before, total_after, per_file_logs,
                   gen, before, opened>>

IoChoices(chs) ==
    {[open_ok |-> FALSE, fail_at |-> -1]}
    \cup {[open_ok |-> TRUE, fail_at |-> k] : k \in -1..Len(chs)}

\* write_png_chunks(kept, dest) and the handler of its exception.
WriteFile ==
    /\ pc = "write"
    /\ IF dry_run THEN
           /\ pc' = "progress"
           /\ UNCHANGED <<fs, opened, per_file_logs, idx>>
       ELSE
           \E io \in IoChoices(kept) :
               LET w == write_png_chunks(kept, io)
               IN  /\ fs' = IF w.opened THEN [fs EXCEPT ![dest] = w.content] ELSE fs
                   /\ opened' = IF w.opened THEN opened \cup {dest} ELSE opened
                   /\ IF w.ok THEN
                          /\ pc' = "progress"
                          /\ UNCHANGED <<per_file_logs, idx>>
                      ELSE
                          /\ per_file_logs' =
                                Append(per_file_logs, LogEntry(src, "WRITE ERROR", NoError, w.exc, 0))
                          /\ NextFile
    /\ UNCHANGED <<out_dir_exists, notepad, files, backup, dry_run, output, chunks, kept,
                   removed, dest, processed, total_removed, total_before, total_after, gen, before>>

\* The progress line and the counters at the end of the loop body.
Progress ==
    /\ pc = "progress"
    /\ processed' = processed + 1
    /\ total_before' = 0
    /\ total_after' = 0
    /\ per_file_logs' = Append(per_file_logs, LogEntry(src, "removed", NoError, "none", removed))
    /\ NextFile
    /\ UNCHANGED <<fs, out_dir_exists, notepad, files, backup, dry_run, output, chunks, kept,
                   removed, dest, total_removed, gen, before, opened>>

Summary ==
    /\ pc = "summary"
    /\ pc' = "notepad"
    /\ UNCHANGED <<fs, out_dir_exists, notepad, files, backup, dry_run, output, idx, chunks,
                   kept, removed, dest, processed, total_removed, total_before, total_after,
                   per_file_logs, gen, before, opened>>

\* append_to_notepad(log_lines) inside its try: the directory is made, the
\* file read and rewritten with one more run; an exception is only reported.
AppendToNotepad ==
    /\ pc = "notepad"
    /\ \E io \in {"ok", "mkdir fails", "write fails"} :
          notepad' =
              IF io = "mkdir fails" THEN notepad
              ELSE IF io = "write fails" THEN [notepad EXCEPT !.dir_exists = TRUE]
              ELSE [dir_exists |-> TRUE, file_exists |-> TRUE,
                    runs |-> Append(notepad.runs,
                                    [dry_run |-> dry_run, backup |-> backup,
                                     total |-> total, total_removed |-> total_removed])]
    /\ pc' = "done"
    /\ UNCHANGED <<fs, out_dir_exists, files, backup, dry_run, output, idx, chunks, kept,
                   removed, dest, processed, total_removed, total_before, total_after,
                   per_file_logs, gen, before, opened>>

Next ==
    \/ ReadFile
    \/ BackupFile
    \/ FilterFile
    \/ PrepareDest
    \/ EnsureParentDirs
    \/ WriteFile
    \/ Progress
    \/ Summary
    \/ AppendToNotepad

Spec == Init /\ [][Next]_vars

SpecCodec == InitCodec /\ [][Next]_vars

\* ----------------------------------------------------------------------
\* Properties
\* ----------------------------------------------------------------------
MetadataTypes == {tEXt, zTXt, iTXt, tIME, pHYs, gAMA}

IsMetadataChunk(ch) == ch.type \in MetadataTypes

IsCoreChunk(ch) == ch.type \in {IHDR, PLTE, IDAT, IEND}

IsPassThroughChunk(ch) == ~IsCoreChunk(ch) /\ ~IsMetadataChunk(ch)

\* type and data of each chunk of a list
RawOf(chs) == [k \in 1..Len(chs) |-> RawChunk(chs[k].type, chs[k].data)]

\* the chunk records of a list of well-formed chunks of ASCII type
ChunksOf(base) ==
    [k \in 1..Len(base) |->
        PNGChunk(<<0, Len(base[k].data)>>, base[k].type, base[k].data,
                 crc32(base[k].type \o base[k].data))]

\* kept and removed are those of the current file
AfterFilter == pc \in {"prepare", "mkdirs", "write", "progress"}

\* the current file was written without error
Written == pc = "progress" /\ ~dry_run

\* file number i has been through read_png_chunks
ReadDone(i) == idx > i \/ (idx = i /\ pc # "read")

LogsOf(i) == SelectSeq(per_file_logs, LAMBDA e : e.src = SrcPath(i))

HasLog(i, kind) == \E k \in 1..Len(per_file_logs) :
    per_file_logs[k].src = SrcPath(i) /\ per_file_logs[k].kind = kind

\* The chunk of `base` that holds byte number p (from 1) of the file, and
\* the field of the chunk; `start` bytes come before chunk k.
RECURSIVE ChunkAt(_, _, _, _)
ChunkAt(base, k, start, p) ==
    LET n == Len(base[k].data)
    IN  IF p > start + 12 + n THEN ChunkAt(base, k + 1, start + 12 + n, p)
        ELSE [k |-> k, start |-> start, n |-> n,
              field |-> IF p <= start + 4 THEN "length"
                        ELSE IF p <= start + 8 THEN "type"
                        ELSE IF p <= start + 8 + n THEN "data"
                        ELSE "CRC"]

\* Where a file cut after p bytes ends: at the boundary before chunk k, or
\* inside a field of chunk k.
RECURSIVE CutAt(_, _, _, _)
CutAt(base, k, start, p) ==
    IF p = start THEN [k |-> k, field |-> "boundary"]
    ELSE LET n == Len(base[k].data)
         IN  IF p < start + 4 THEN [k |-> k, field |-> "length"]
             ELSE IF p < start + 8 THEN [k |-> k, field |-> "type"]
             ELSE IF p < start + 8 + n THEN [k |-> k, field |-> "data"]
             ELSE IF p < start + 12 + n THEN [k |-> k, field |-> "CRC"]
             ELSE CutAt(base, k + 1, start + 12 + n, p)

\* C1: the kept list of filter_chunks, and the file written from it, hold
\* no tEXt, zTXt, iTXt, tIME, pHYs or gAMA chunk, and removed_count is the
\* number of chunks of the input with one of these types.
C1_UnconditionalDrop ==
    /\ AfterFilter =>
          /\ \A k \in 1..Len(kept) : ~IsMetadataChunk(kept[k])
          /\ removed = Cardinality({k \in 1..Len(chunks) : IsMetadataChunk(chunks[k])})
          /\ gen[idx].mut = "none" =>
                removed = Cardinality({k \in 1..Len(gen[idx].base) :
                                          IsMetadataChunk(gen[idx].base[k])})
    /\ Written =>
          LET r == read_png_chunks(fs[dest], dest)
          IN  r.ok /\ \A k \in 1..Len(r.chunks) : ~IsMetadataChunk(r.chunks[k])

C1_Witness == Written /\ removed >= 1 /\ Len(kept) >= 1 /\ dest \in opened

\* C2: every IHDR, PLTE, IDAT and IEND chunk of the input is in the output
\* of filter_chunks, in the input's order, with length, type, data and crc
\* unchanged, at every occurrence and position.
C2_CorePreservation ==
    /\ AfterFilter =>
          /\ SelectSeq(kept, IsCoreChunk) = SelectSeq(chunks, IsCoreChunk)
          /\ gen[idx].mut = "none" =>
                SelectSeq(kept, IsCoreChunk) = ChunksOf(SelectSeq(gen[idx].base, IsCoreChunk))
    /\ Written =>
          SelectSeq(read_png_chunks(fs[dest], dest).chunks, IsCoreChunk)
              = SelectSeq(chunks, IsCoreChunk)

C2_Witness ==
    /\ Written
    /\ Len(chunks) = 2
    /\ chunks[1].type = IDAT
    /\ chunks[2].type = IDAT
    /\ kept = chunks
    /\ dest \in opened

\* C3: for every file read_png_chunks accepts, write_png_chunks of the full
\* chunk list gives back the bytes of the file.
C3_RoundTrip ==
    pc = "backup" =>
        LET w == write_png_chunks(chunks, IoOk)
        IN  w.ok /\ w.content = fs[src]

\* C4: a chunk whose type is in neither set is kept by the filter and is in
\* the written file unchanged; reading, filtering and writing do not fail
\* because of its type.
C4_PassThrough ==
    /\ \A k \in 1..Len(per_file_logs) :
          per_file_logs[k].kind = "WRITE ERROR" => per_file_logs[k].exc # "UnicodeEncodeError"
    /\ AfterFilter =>
          SelectSeq(kept, IsPassThroughChunk) = SelectSeq(chunks, IsPassThroughChunk)
    /\ Written =>
          SelectSeq(read_png_chunks(fs[dest], dest).chunks, IsPassThroughChunk)
              = SelectSeq(chunks, IsPassThroughChunk)

\* A file whose chunk holding the damaged byte has a stored CRC that is not
\* the CRC-32 of its type and data: the byte is in the type, data or CRC.
CrcDamaged(g) ==
    /\ g.mut = "flip"
    /\ g.at > 8
    /\ ChunkAt(g.base, 1, 8, g.at).field \in {"type", "data", "CRC"}

\* C5: when a chunk's stored CRC differs from the CRC-32 of its type and
\* data, read_png_chunks fails with an error that reports the expected and
\* the stored CRC, no chunk of the file is returned or processed, and
\* nothing is written for the file.
C5_CrcDetection ==
    \A i \in DOMAIN gen :
        (CrcDamaged(gen[i]) /\ ReadDone(i)) =>
            LET loc == ChunkAt(gen[i].base, 1, 8, gen[i].at)
                bytes == before.fs[SrcPath(i)]
                type_bytes == SubSeq(bytes, loc.start + 5, loc.start + 8)
                data == SubSeq(bytes, loc.start + 9, loc.start + 8 + loc.n)
                crc_bytes == SubSeq(bytes, loc.start + 9 + loc.n, loc.start + 12 + loc.n)
                stored == <<crc_bytes[1] * 256 + crc_bytes[2], crc_bytes[3] * 256 + crc_bytes[4]>>
                expected == crc32(type_bytes \o data)
            IN  /\ stored # expected
                /\ LogsOf(i) = <<LogEntry(SrcPath(i), "READ ERROR",
                                          ReadError("crc", "none", type_bytes, expected, stored,
                                                    SrcPath(i)),
                                          "ValueError", 0)>>
                /\ fs[SrcPath(i)] = before.fs[SrcPath(i)]
                /\ fs[BakPath(i)] = Absent
                /\ fs[OutPath(i)] = Absent
                /\ opened \cap {SrcPath(i), BakPath(i), OutPath(i)} = {}
                /\ total = 1 =>
                      /\ chunks = <<>>
                      /\ kept = <<>>
                      /\ processed = 0
                      /\ total_removed = 0
                      /\ opened = {}

C5_Witness ==
    /\ pc = "done"
    /\ CrcDamaged(gen[1])
    /\ ChunkAt(gen[1].base, 1, 8, gen[1].at).k = 2
    /\ ChunkAt(gen[1].base, 1, 8, gen[1].at).field = "data"
    /\ HasLog(1, "READ ERROR")

Truncated(g) == g.mut = "trunc" /\ g.at >= 8

\* C6, as amended: a file that ends inside a field of a chunk makes
\* read_png_chunks fail with an unexpected-EOF error that names the field
\* and the file; the error names the chunk, by its type, when the field is
\* the data or the CRC, and names no chunk when it is the length or the
\* type.  A file that ends at a chunk boundary is read without error and
\* gives the chunks before the boundary.
C6_TruncationReported ==
    \A i \in DOMAIN gen :
        (Truncated(gen[i]) /\ ReadDone(i)) =>
            LET cut == CutAt(gen[i].base, 1, 8, gen[i].at)
            IN  IF cut.field = "boundary" THEN
                    /\ ~HasLog(i, "READ ERROR")
                    /\ (idx = i /\ pc = "backup") =>
                          /\ Len(chunks) = cut.k - 1
                          /\ RawOf(chunks) = SubSeq(gen[i].base, 1, cut.k - 1)
                ELSE
                    LogsOf(i) =
                        <<LogEntry(SrcPath(i), "READ ERROR",
                                   ReadError("eof", cut.field,
                                             IF cut.field \in {"data", "CRC"}
                                             THEN gen[i].base[cut.k].type ELSE NoStr,
                                             NoInt, NoInt, SrcPath(i)),
                                   "ValueError", 0)>>

C6_Witness ==
    /\ pc = "done"
    /\ Truncated(gen[1])
    /\ CutAt(gen[1].base, 1, 8, gen[1].at) = [k |-> 2, field |-> "length"]
    /\ HasLog(1, "READ ERROR")

\* C6, as stated: the error of a short read at any of the four fields
\* names the field and the chunk that was being read.
C6_TruncationNamesChunk ==
    \A i \in DOMAIN gen :
        (Truncated(gen[i]) /\ ReadDone(i)) =>
            LET cut == CutAt(gen[i].base, 1, 8, gen[i].at)
            IN  IF cut.field = "boundary" THEN ~HasLog(i, "READ ERROR")
                ELSE \E k \in 1..Len(per_file_logs) :
                        /\ per_file_logs[k].src = SrcPath(i)
                        /\ per_file_logs[k].kind = "READ ERROR"
                        /\ per_file_logs[k].err.what = "eof"
                        /\ per_file_logs[k].err.field = cut.field
                        /\ per_file_logs[k].err.chunk_type = gen[i].base[cut.k].type

\* the run is over: main() returned or an exception left it
Ended == pc \in {"done", "crashed"}

\* file number i ended as written or as failed
Settled(i) == \E k \in 1..Len(per_file_logs) : per_file_logs[k].src = SrcPath(i)

\* C7: a failure at any stage of one file ends that file only; every file
\* of the list ends as written or failed and the run reaches its summary.
C7_ErrorIsolation ==
    Ended => (pc = "done" /\ \A i \in 1..total : Settled(i))

\* C8: with --backup and without --dry-run, write_png_chunks opens a source
\* path only after the .bak copy of that source file has completed.
C8_BackupBeforeOverwrite ==
    (backup /\ ~dry_run) =>
        \A i \in 1..total :
            SrcPath(i) \in opened => fs[BakPath(i)] = before.fs[SrcPath(i)]

\* C9: with --dry-run, no file or directory is created or modified by the
\* run.
C9_DryRunWritesNothing ==
    dry_run =>
        /\ fs = before.fs
        /\ out_dir_exists = before.out_dir_exists
        /\ notepad = before.notepad
        /\ opened = {}

\* C10: when a file ends as failed, by a reader error or by a writer error,
\* the bytes of the source file are those it had before the run.
C10_SourceUnchangedOnFailure ==
    \A k \in 1..Len(per_file_logs) :
        per_file_logs[k].kind \in {"READ ERROR", "WRITE ERROR"} =>
            fs[per_file_logs[k].src] = before.fs[per_file_logs[k].src]

====
